---- MODULE Spec2Model ----
(***************************************************************************)
(* Model of the UDS request/response engine of overboost-rs                *)
(* (src/src/datalink/uds.rs, impl UdsInterface for dyn Isotp).             *)
(*                                                                         *)
(* One request() call is followed step by step: the request buffer is      *)
(* built and handed to write_isotp, then every iteration of the response   *)
(* loop calls read_isotp once and classifies what it got.  The ISO-TP      *)
(* transport is the environment: each of its calls either fails with an    *)
(* IsotpError or (for a read) delivers an arbitrary message.               *)
(***************************************************************************)
EXTENDS Integers, Sequences, FiniteSets

(***************************************************************************)
(* Bounds of the model.                                                    *)
(***************************************************************************)
\* longest message read_isotp delivers
MaxLen == 3
\* longest request payload (the data argument of request())
MaxData == 2
\* most response-pending messages followed within one request() call
MaxPending == 5

(***************************************************************************)
(* Program constants.                                                      *)
(***************************************************************************)
\* 0x78, requestCorrectlyReceivedResponsePending
UDS_NRES_RCRRP == 120
\* 0x7F, first byte of a negative response
NEGATIVE_RESPONSE == 127
\* 0x40, added to the request SID to give the positive response id
POSITIVE_OFFSET == 64
\* u8 arithmetic is modulo 2^8
U8_MODULUS == 256
\* NRC reported when a negative response has no second byte
NO_NRC == 0

(***************************************************************************)
(* Input domains.  Bytes holds the byte values the classification tells    *)
(* apart for the request SIDs below: the negative marker 0x7F, the pending *)
(* code 0x78, and the echoes 0x50 (of 0x10), 0xFF (of 0xBF) and 0x00 (of   *)
(* 0xC0, whose sum with 0x40 does not fit a u8).  SID 0x3F is the one      *)
(* whose echo is the negative marker.                                      *)
(***************************************************************************)
Bytes == {0, 80, UDS_NRES_RCRRP, NEGATIVE_RESPONSE, 255}

Sids == {16, 63, 191, 192}

DataBytes == {1, 2}

RECURSIVE SeqsUpTo(_, _)
SeqsUpTo(S, n) ==
    IF n = 0 THEN {<<>>}
    ELSE LET shorter == SeqsUpTo(S, n - 1)
         IN  shorter \cup {Append(s, b) : s \in {t \in shorter : Len(t) = n - 1}, b \in S}

Messages == SeqsUpTo(Bytes, MaxLen)

Payloads == SeqsUpTo(DataBytes, MaxData)

\* the errors of the ISO-TP transport (opaque to the engine)
IsotpErrors == {"Timeout", "FlowControl"}

NoError == "none"

(***************************************************************************)
(* State.                                                                  *)
(***************************************************************************)
VARIABLES
    pc,               \* position of the caller: idle, read (in the loop), done, panicked
    overflow_checks,  \* build profile: does u8 overflow panic (debug) or wrap (release)
    request_sid,      \* argument of request()
    data,             \* argument of request()
    wire,             \* the buffers handed to write_isotp during this call, in order
    werr,             \* error of the write_isotp call, NoError if it succeeded
    nreads,           \* read_isotp calls made during this call
    npending,         \* response-pending messages discarded during this call
    response,         \* the message that ended the loop (a pending one is dropped)
    rerr,             \* error of the last read_isotp call, NoError if it delivered
    result            \* what request() returned

vars == <<pc, overflow_checks, request_sid, data, wire, werr, nreads, npending,
          response, rerr, result>>

(***************************************************************************)
(* Result<Vec<u8>, UdsError> as a record of one shape.                     *)
(***************************************************************************)
Res(k, b, n, e) == [kind |-> k, bytes |-> b, nrc |-> n, err |-> e]

NoResult == Res("None", <<>>, 0, NoError)

Ok(b) == Res("Ok", b, 0, NoError)

NegativeResponse(n) == Res("NegativeResponse", <<>>, n, NoError)

InvalidResponseId == Res("InvalidResponseId", <<>>, 0, NoError)

Panicked == Res("Panic", <<>>, 0, NoError)

\* the loop goes round again: no result yet
Pending == Res("Continue", <<>>, 0, NoError)

EmptyResponse_AsInvalidId == Res("InvalidResponseId", <<>>, 0, NoError)

EmptyResponse == Res("EmptyResponse", <<>>, 0, NoError)

\* #[from] IsotpError, #[error(transparent)]: the `?` operator wraps the error as it is
FromIsotp(e) == Res("Isotp", <<>>, 0, e)

(***************************************************************************)
(* The pure parts of request().                                            *)
(***************************************************************************)
BuildRequest_PayloadFirst(sid, d) == d \o <<sid>>

\* v.push(request_sid); v.extend_from_slice(&data)
BuildRequest(sid, d) == <<sid>> \o d

\* a + b on u8: a panic where overflow is checked, the wrapped sum where it is not
AddU8(a, b, checks) ==
    LET sum == a + b
    IN  IF sum >= U8_MODULUS
        THEN IF checks THEN [panic |-> TRUE, val |-> 0]
                       ELSE [panic |-> FALSE, val |-> sum % U8_MODULUS]
        ELSE [panic |-> FALSE, val |-> sum]

\* request_sid + 0x40
PositiveResponseId(sid, checks) == AddU8(sid, POSITIVE_OFFSET, checks)

IsResponsePending_ExactLength(resp) == Len(resp) = 2 /\ resp[2] = UDS_NRES_RCRRP

\* of a message whose first byte is 0x7F: response.len() > 1 && response[1] == UDS_NRES_RCRRP
IsResponsePending(resp) == Len(resp) > 1 /\ resp[2] = UDS_NRES_RCRRP

Nrc_FirstByte(resp) == IF Len(resp) > 1 THEN resp[2] ELSE resp[1]

\* of a message whose first byte is 0x7F: response[1], or 0 when there is none
Nrc(resp) == IF Len(resp) > 1 THEN resp[2] ELSE NO_NRC

StripFirst_Nothing(resp) == resp

\* response[1..].to_vec()
StripFirst(resp) == SubSeq(resp, 2, Len(resp))

Classify_EchoFirst(sid, resp, checks) ==
    IF Len(resp) = 0 THEN EmptyResponse
    ELSE LET id == PositiveResponseId(sid, checks)
         IN  IF id.panic THEN Panicked
             ELSE IF resp[1] = id.val THEN Ok(StripFirst(resp))
             ELSE IF resp[1] = NEGATIVE_RESPONSE
                  THEN IF IsResponsePending(resp) THEN Pending
                       ELSE NegativeResponse(Nrc(resp))
             ELSE InvalidResponseId

\* the body of the response loop after read_isotp delivered resp
Classify(sid, resp, checks) ==
    IF Len(resp) = 0 THEN EmptyResponse
    ELSE IF resp[1] = NEGATIVE_RESPONSE
         THEN IF IsResponsePending(resp) THEN Pending
              ELSE NegativeResponse(Nrc(resp))
    ELSE LET id == PositiveResponseId(sid, checks)
         IN  IF id.panic THEN Panicked
             ELSE IF resp[1] # id.val THEN InvalidResponseId
             ELSE Ok(StripFirst(resp))

(***************************************************************************)
(* State of the service calls (the default methods of UdsInterface).  A    *)
(* service call is one step: it invokes request() and validates what the   *)
(* Engine returned.                                                        *)
(***************************************************************************)
VARIABLES
    sv_pc,       \* idle, or returned (a service call has returned sv_out)
    sv_call,     \* the service called and its arguments
    sv_calls,    \* the request() invocations of this service call: [sid, data], in order
    sv_script,   \* what the transport did during the call
    sv_eng,      \* what request() returned to the service
    sv_out,      \* what the service returned
    sv_seen,     \* history: the services that completed on this channel before this call
    sv_memo      \* history: one earlier call, remembered with its outcome

svcvars == <<sv_pc, sv_call, sv_calls, sv_script, sv_eng, sv_out, sv_seen, sv_memo>>

(***************************************************************************)
(* State of a NumVec (table.rs).                                           *)
(***************************************************************************)
VARIABLES
    nv_type,     \* the variant: the element type of the inner vector
    nv_elems,    \* the inner vector
    nv_op        \* the last operation on it and what it returned

nvvars == <<nv_type, nv_elems, nv_op>>

\* Can::read for CANSocket (can.rs): where the call is, what the socket did,
\* and what the call produced
VARIABLES can_pc, can_io, can_out

canvars == <<can_pc, can_io, can_out>>

allvars == <<vars, svcvars, nvvars, canvars>>

NoCall == [svc |-> "none", bytes |-> <<>>, num |-> 0, len |-> 0]

NoScript == [werr |-> NoError, rerr |-> NoError, msg |-> <<>>]

NoMemo == [call |-> NoCall, script |-> NoScript, out |-> NoResult]

SvcIdle ==
    /\ sv_pc = "idle"
    /\ sv_call = NoCall
    /\ sv_calls = <<>>
    /\ sv_script = NoScript
    /\ sv_eng = NoResult
    /\ sv_out = NoResult
    /\ sv_seen = {}
    /\ sv_memo = NoMemo

NoOp == [op |-> "none", index |-> 0, value |-> 0, before |-> <<>>, as |-> "none", got |-> 0]

NvIdle ==
    /\ nv_type = "U8"
    /\ nv_elems = <<>>
    /\ nv_op = NoOp

(***************************************************************************)
(* Initial state: no request() call is in progress.                        *)
(***************************************************************************)
Idle ==
    /\ pc = "idle"
    /\ request_sid = 0
    /\ data = <<>>
    /\ wire = <<>>
    /\ werr = NoError
    /\ nreads = 0
    /\ npending = 0
    /\ response = <<>>
    /\ rerr = NoError
    /\ result = NoResult

\* no frame: arbitration id 0, no payload
NoFrame == [id |-> 0, payload |-> <<>>]

NoIo == [timeout_err |-> NoError, read_err |-> NoError, frame |-> NoFrame]

NoMessage == [kind |-> "None", id |-> 0, data |-> <<>>, len |-> 0, err |-> NoError]

CanIdle ==
    /\ can_pc = "idle"
    /\ can_io = NoIo
    /\ can_out = NoMessage

Init ==
    /\ overflow_checks \in BOOLEAN
    /\ Idle
    /\ SvcIdle
    /\ NvIdle
    /\ CanIdle

(***************************************************************************)
(* request(): build the buffer and write it.                               *)
(***************************************************************************)
AfterWrite_IgnoreError(e) ==
    /\ pc' = "read"
    /\ result' = NoResult

\* self.write_isotp(&v)?
AfterWrite(e) ==
    IF e = NoError
    THEN /\ pc' = "read"
         /\ result' = NoResult
    ELSE /\ pc' = "done"
         /\ result' = FromIsotp(e)

Request(sid, d) ==
    /\ pc = "idle"
    /\ request_sid' = sid
    /\ data' = d
    /\ wire' = Append(wire, BuildRequest(sid, d))
    /\ \E e \in IsotpErrors \cup {NoError} :
          /\ werr' = e
          /\ AfterWrite(e)
    /\ UNCHANGED <<overflow_checks, nreads, npending, response, rerr>>
    /\ UNCHANGED <<svcvars, nvvars, canvars>>

(***************************************************************************)
(* request(): one iteration of the response loop.                          *)
(***************************************************************************)
Continue_Resend ==
    /\ pc' = "read"
    /\ npending' = npending + 1
    /\ wire' = Append(wire, BuildRequest(request_sid, data))
    /\ UNCHANGED result

Continue_Bounded ==
    /\ npending' = npending + 1
    /\ UNCHANGED wire
    /\ IF npending >= 1
       THEN pc' = "done" /\ result' = NegativeResponse(UDS_NRES_RCRRP)
       ELSE pc' = "read" /\ UNCHANGED result

\* continue: back to read_isotp, nothing is written
Continue ==
    /\ pc' = "read"
    /\ npending' = npending + 1
    /\ UNCHANGED <<wire, result>>

\* read_isotp delivered the message m
ReadMessage ==
    /\ pc = "read"
    /\ \E m \in Messages :
          LET c == Classify(request_sid, m, overflow_checks)
          IN  IF c.kind = "Continue"
              THEN /\ npending < MaxPending
                   /\ response' = <<>>
                   /\ Continue
              ELSE /\ response' = m
                   /\ pc' = IF c.kind = "Panic" THEN "panicked" ELSE "done"
                   /\ result' = c
                   /\ UNCHANGED <<npending, wire>>
    /\ nreads' = nreads + 1
    /\ rerr' = NoError
    /\ UNCHANGED <<overflow_checks, request_sid, data, werr>>
    /\ UNCHANGED <<svcvars, nvvars, canvars>>

AfterReadError_Retry(e) ==
    /\ pc' = "read"
    /\ UNCHANGED result

\* self.read_isotp()?
AfterReadError(e) ==
    /\ pc' = "done"
    /\ result' = FromIsotp(e)

\* read_isotp failed
ReadError ==
    /\ pc = "read"
    /\ \E e \in IsotpErrors :
          /\ rerr' = e
          /\ AfterReadError(e)
    /\ nreads' = nreads + 1
    /\ UNCHANGED <<overflow_checks, request_sid, data, wire, werr, npending, response>>
    /\ UNCHANGED <<svcvars, nvvars, canvars>>

(***************************************************************************)
(* request() has returned; the caller may call again.  Nothing of the call *)
(* outlives it.                                                            *)
(***************************************************************************)
Return ==
    /\ pc = "done"
    /\ pc' = "idle"
    /\ request_sid' = 0
    /\ data' = <<>>
    /\ wire' = <<>>
    /\ werr' = NoError
    /\ nreads' = 0
    /\ npending' = 0
    /\ response' = <<>>
    /\ rerr' = NoError
    /\ result' = NoResult
    /\ UNCHANGED overflow_checks
    /\ UNCHANGED <<svcvars, nvvars, canvars>>

Next ==
    \/ \E sid \in Sids, d \in Payloads : Request(sid, d)
    \/ ReadMessage
    \/ ReadError
    \/ Return

Spec == Init /\ [][Next]_allvars

(***************************************************************************)
(* The same, when the transport eventually ends the wait: a blocked        *)
(* read_isotp eventually returns an error or a message that is not         *)
(* response-pending.                                                       *)
(***************************************************************************)
ReadResolving ==
    \/ ReadError
    \/ ReadMessage /\ pc' # "read"

SpecLive == Init /\ [][Next]_allvars /\ WF_allvars(ReadResolving)

(***************************************************************************)
(* The services: default methods of trait UdsInterface.                    *)
(***************************************************************************)
\* longest message read_isotp delivers to a service call
MaxSvcLen == 4

\* Request SIDs
UDS_REQ_SESSION == 16

UDS_REQ_SECURITY == 39

UDS_REQ_READMEM == 35

UDS_REQ_READDATABYID == 34

\* securityAccess sub-functions: requestSeed and sendKey
SEED_SUBFUNCTION == 1

KEY_SUBFUNCTION == 2

InvalidResponse == Res("InvalidResponse", <<>>, 0, NoError)

\* Ok(()) of request_security_key
OkUnit == Res("OkUnit", <<>>, 0, NoError)

\* arguments of the service calls
SessionTypes == {1, 2}

Keys == Payloads

\* (u32 values below 2^31: the model checker's integers end there)
Addresses == {0, 1048576, 16909060, 2147483647}

Lengths == {16, 258, 65535}

Identifiers == {257, 258, 513}

\* the bytes a service call tells apart in a message: its echoed parameters
\* (1 and 2), the negative marker and the positive response id of its request
SvcBytes(sid) == {1, 2, NEGATIVE_RESPONSE, sid + POSITIVE_OFFSET}

\* what the transport can do during one request(): fail the write, fail a read,
\* or end the loop with a message that is not response-pending
ScriptsOver(alphabet, maxlen) ==
    {[werr |-> e, rerr |-> NoError, msg |-> <<>>] : e \in IsotpErrors}
    \cup {[werr |-> NoError, rerr |-> e, msg |-> <<>>] : e \in IsotpErrors}
    \cup {[werr |-> NoError, rerr |-> NoError, msg |-> m] :
             m \in {x \in SeqsUpTo(alphabet, maxlen) :
                       ~(Len(x) >= 1 /\ x[1] = NEGATIVE_RESPONSE /\ IsResponsePending(x))}}

Scripts(sid) == ScriptsOver(SvcBytes(sid), MaxSvcLen)

SessionScripts == Scripts(UDS_REQ_SESSION)

SecurityScripts == Scripts(UDS_REQ_SECURITY)

ReadMemoryScripts == Scripts(UDS_REQ_READMEM)

IdentifierScripts == Scripts(UDS_REQ_READDATABYID)

\* request() from its call to its return, under the transport's script sc
EngineOutcome(sid, sc, checks) ==
    IF sc.werr # NoError THEN FromIsotp(sc.werr)
    ELSE IF sc.rerr # NoError THEN FromIsotp(sc.rerr)
    ELSE Classify(sid, sc.msg, checks)

\* n as w big-endian bytes
RECURSIVE BigEndian(_, _)
BigEndian(n, w) ==
    IF w = 0 THEN <<>>
    ELSE Append(BigEndian(n \div U8_MODULUS, w - 1), n % U8_MODULUS)

Propagate_Default(e) == Ok(<<>>)

\* the `?` after self.request(..): the error is returned as it is
Propagate(e) == e

Invocations_Retry(req, eng) == IF eng.kind = "Ok" THEN <<req>> ELSE <<req, req>>

\* each service has one self.request(..) call site, outside any loop
Invocations(req, eng) == <<req>>

SessionRequest(session_type) ==
    [sid |-> UDS_REQ_SESSION, data |-> <<session_type>>]

request_session_KeepEcho(session_type, eng) ==
    IF eng.kind # "Ok" THEN Propagate(eng)
    ELSE IF Len(eng.bytes) = 0 THEN EmptyResponse
    ELSE IF eng.bytes[1] # session_type THEN InvalidResponse
    ELSE Ok(eng.bytes)

request_session(session_type, eng) ==
    IF eng.kind # "Ok" THEN Propagate(eng)
    ELSE IF Len(eng.bytes) = 0 THEN EmptyResponse
    ELSE IF eng.bytes[1] # session_type THEN InvalidResponse
    ELSE Ok(Tail(eng.bytes))

\* a service invokes request(req) under the transport's script sc
Invoke(call, req, sc) ==
    /\ sv_pc = "idle"
    /\ sv_pc' = "returned"
    /\ sv_call' = call
    /\ sv_script' = sc
    /\ sv_eng' = EngineOutcome(req.sid, sc, overflow_checks)
    /\ sv_calls' = Invocations(req, sv_eng')
    /\ UNCHANGED <<sv_seen, sv_memo, vars, nvvars, canvars>>

RequestSession(session_type, sc) ==
    /\ Invoke([svc |-> "request_session", bytes |-> <<>>, num |-> session_type, len |-> 0],
              SessionRequest(session_type), sc)
    /\ sv_out' = request_session(session_type, sv_eng')

SeedRequest == [sid |-> UDS_REQ_SECURITY, data |-> <<SEED_SUBFUNCTION>>]

request_security_seed_AnyEcho(eng) ==
    IF eng.kind # "Ok" THEN Propagate(eng)
    ELSE IF Len(eng.bytes) = 0 THEN EmptyResponse
    ELSE Ok(Tail(eng.bytes))

request_security_seed_EmptyIsInvalid(eng) ==
    IF eng.kind # "Ok" THEN Propagate(eng)
    ELSE IF Len(eng.bytes) = 0 THEN InvalidResponse
    ELSE IF eng.bytes[1] # SEED_SUBFUNCTION THEN InvalidResponse
    ELSE Ok(Tail(eng.bytes))

request_security_seed(eng) ==
    IF eng.kind # "Ok" THEN Propagate(eng)
    ELSE IF Len(eng.bytes) = 0 THEN EmptyResponse
    ELSE IF eng.bytes[1] # SEED_SUBFUNCTION THEN InvalidResponse
    ELSE Ok(Tail(eng.bytes))

RequestSecuritySeed(sc) ==
    /\ Invoke([svc |-> "request_security_seed", bytes |-> <<>>, num |-> 0, len |-> 0],
              SeedRequest, sc)
    /\ sv_out' = request_security_seed(sv_eng')

\* request.push(2); request.extend_from_slice(&key)
KeyRequest(key) == [sid |-> UDS_REQ_SECURITY, data |-> <<KEY_SUBFUNCTION>> \o key]

request_security_key_CheckedEcho(key, eng) ==
    IF eng.kind # "Ok" THEN Propagate(eng)
    ELSE IF Len(eng.bytes) = 0 THEN EmptyResponse
    ELSE IF eng.bytes[1] # KEY_SUBFUNCTION THEN InvalidResponse
    ELSE OkUnit

request_security_key_AfterSeed(key, eng) ==
    IF eng.kind # "Ok" THEN Propagate(eng)
    ELSE IF "request_security_seed" \notin sv_seen THEN InvalidResponse
    ELSE OkUnit

request_security_key(key, eng) ==
    IF eng.kind # "Ok" THEN Propagate(eng)
    ELSE OkUnit

RequestSecurityKey(key, sc) ==
    /\ Invoke([svc |-> "request_security_key", bytes |-> key, num |-> 0, len |-> 0],
              KeyRequest(key), sc)
    /\ sv_out' = request_security_key(key, sv_eng')

ReadMemoryRequest_LittleEndian(address, length) ==
    LET rev(q) == [i \in 1..Len(q) |-> q[Len(q) + 1 - i]]
    IN  [sid |-> UDS_REQ_READMEM,
         data |-> rev(BigEndian(address, 4)) \o rev(BigEndian(length, 2))]

\* wt.write_u32(address); wt.write_u16(length) into request: [u8; 6]
ReadMemoryRequest(address, length) ==
    [sid |-> UDS_REQ_READMEM, data |-> BigEndian(address, 4) \o BigEndian(length, 2)]

\* self.request(UDS_REQ_READMEM, &request) is the value of the method
request_read_memory_address(address, length, eng) == eng

RequestReadMemoryAddress(address, length, sc) ==
    /\ Invoke([svc |-> "request_read_memory_address", bytes |-> <<>>,
               num |-> address, len |-> length],
              ReadMemoryRequest(address, length), sc)
    /\ sv_out' = request_read_memory_address(address, length, sv_eng')

\* &[(id >> 8) as u8, (id & 0xFF) as u8]
IdentifierRequest(id) ==
    [sid |-> UDS_REQ_READDATABYID,
     data |-> <<(id \div U8_MODULUS) % U8_MODULUS, id % U8_MODULUS>>]

read_data_by_identifier_BothDiffer(id, eng) ==
    LET request == IdentifierRequest(id).data
    IN  IF eng.kind # "Ok" THEN Propagate(eng)
        ELSE IF Len(eng.bytes) < 2 THEN InvalidResponse
        ELSE IF eng.bytes[1] # request[1] /\ eng.bytes[2] # request[2] THEN InvalidResponse
        ELSE Ok(SubSeq(eng.bytes, 3, Len(eng.bytes)))

read_data_by_identifier(id, eng) ==
    LET request == IdentifierRequest(id).data
    IN  IF eng.kind # "Ok" THEN Propagate(eng)
        ELSE IF Len(eng.bytes) < 2 THEN InvalidResponse
        ELSE IF eng.bytes[1] # request[1] \/ eng.bytes[2] # request[2] THEN InvalidResponse
        ELSE Ok(SubSeq(eng.bytes, 3, Len(eng.bytes)))

ReadDataByIdentifier(id, sc) ==
    /\ Invoke([svc |-> "read_data_by_identifier", bytes |-> <<>>, num |-> id, len |-> 0],
              IdentifierRequest(id), sc)
    /\ sv_out' = read_data_by_identifier(id, sv_eng')

\* the service call has returned; the caller may call again
SvcReturn ==
    /\ sv_pc = "returned"
    /\ sv_pc' = "idle"
    /\ sv_call' = NoCall
    /\ sv_calls' = <<>>
    /\ sv_script' = NoScript
    /\ sv_eng' = NoResult
    /\ sv_out' = NoResult
    /\ UNCHANGED <<sv_seen, sv_memo, vars, nvvars, canvars>>

\* the caller's calls, with every argument and every transport script
CallRequestSession ==
    /\ sv_pc = "idle"
    /\ \E t \in SessionTypes, sc \in SessionScripts : RequestSession(t, sc)

CallRequestSecuritySeed ==
    /\ sv_pc = "idle"
    /\ \E sc \in SecurityScripts : RequestSecuritySeed(sc)

CallRequestSecurityKey ==
    /\ sv_pc = "idle"
    /\ \E key \in Keys, sc \in SecurityScripts : RequestSecurityKey(key, sc)

CallRequestReadMemoryAddress ==
    /\ sv_pc = "idle"
    /\ \E a \in Addresses, l \in Lengths, sc \in ReadMemoryScripts :
          RequestReadMemoryAddress(a, l, sc)

CallReadDataByIdentifier ==
    /\ sv_pc = "idle"
    /\ \E id \in Identifiers, sc \in IdentifierScripts : ReadDataByIdentifier(id, sc)

NextSvc ==
    \/ CallRequestSession
    \/ CallRequestSecuritySeed
    \/ CallRequestSecurityKey
    \/ CallRequestReadMemoryAddress
    \/ CallReadDataByIdentifier
    \/ SvcReturn

SpecSvc == Init /\ [][NextSvc]_allvars

(***************************************************************************)
(* Sequences of security-access calls on one channel.  The first call of   *)
(* the channel is remembered with its outcome, and the services that have  *)
(* completed are recorded, so that a later call with the same arguments    *)
(* and the same transport script can be compared with it.                  *)
(***************************************************************************)
\* longest message read_isotp delivers in these sequences
MaxSeqLen == 2

SeqKeys == {<<>>, <<1>>}

SeqSecurityScripts == ScriptsOver(SvcBytes(UDS_REQ_SECURITY), MaxSeqLen)

SeqCallRequestSecuritySeed ==
    /\ sv_pc = "idle"
    /\ \E sc \in SeqSecurityScripts : RequestSecuritySeed(sc)

SeqCallRequestSecurityKey ==
    /\ sv_pc = "idle"
    /\ \E key \in SeqKeys, sc \in SeqSecurityScripts : RequestSecurityKey(key, sc)

\* the service call has returned; the caller may call again on the same channel
SeqReturn ==
    /\ sv_pc = "returned"
    /\ sv_pc' = "idle"
    /\ sv_seen' = sv_seen \cup {sv_call.svc}
    /\ sv_memo' = IF sv_memo = NoMemo
                  THEN [call |-> sv_call, script |-> sv_script, out |-> sv_out]
                  ELSE sv_memo
    /\ sv_call' = NoCall
    /\ sv_calls' = <<>>
    /\ sv_script' = NoScript
    /\ sv_eng' = NoResult
    /\ sv_out' = NoResult
    /\ UNCHANGED <<vars, nvvars, canvars>>

NextSeq ==
    \/ SeqCallRequestSecuritySeed
    \/ SeqCallRequestSecurityKey
    \/ SeqReturn

SpecSeq == Init /\ [][NextSeq]_allvars

(***************************************************************************)
(* Vocabulary of the properties.                                           *)
(***************************************************************************)
\* the call ended on a message: both transport calls that ended it succeeded
EndedOnMessage ==
    /\ pc \in {"done", "panicked"}
    /\ werr = NoError
    /\ rerr = NoError

\* a message that begins with 0x7F, 0x78
PendingMessage(m) == Len(m) >= 2 /\ m[1] = 127 /\ m[2] = 120

TransportError(e) == [kind |-> "Isotp", bytes |-> <<>>, nrc |-> 0, err |-> e]

(***************************************************************************)
(* C1 as stated: for every service id, when write_message succeeds and the *)
(* first message read is [service_id + 0x40] ++ payload, request() returns *)
(* Ok(payload).  Refuted by service id 0x3F, whose echo is 0x7F.           *)
(***************************************************************************)
C1_AnySid_FirstPositiveReturnsPayload ==
    (/\ EndedOnMessage
     /\ nreads = 1
     /\ Len(response) >= 1
     /\ response[1] = request_sid + 64)
    => (pc = "done" /\ result = [kind |-> "Ok", bytes |-> Tail(response),
                                 nrc |-> 0, err |-> NoError])

(***************************************************************************)
(* C1 amended: for every service id other than 0x3F, when write_message    *)
(* succeeds and the first message read is [service_id + 0x40] ++ payload   *)
(* (a byte, so service_id + 0x40 <= 0xFF), request() returns Ok(payload),  *)
(* the message without its first byte.                                     *)
(***************************************************************************)
C1_FirstPositiveReturnsPayload ==
    (/\ EndedOnMessage
     /\ nreads = 1
     /\ request_sid # 63
     /\ Len(response) >= 1
     /\ response[1] = request_sid + 64)
    => (pc = "done" /\ result = [kind |-> "Ok", bytes |-> Tail(response),
                                 nrc |-> 0, err |-> NoError])

C1_Witness ==
    /\ pc = "done"
    /\ nreads = 1
    /\ request_sid = 16
    /\ response = <<80, 0, 255>>
    /\ result.kind = "Ok"
    /\ result.bytes = <<0, 255>>

(***************************************************************************)
(* C2: after any number n >= 0 of response-pending messages (0x7F, 0x78,   *)
(* any trailing bytes), a valid positive response (first byte              *)
(* service_id + 0x40, not the negative marker) makes request() return      *)
(* Ok(payload) of that response alone; a pending message never ends the    *)
(* request.                                                                *)
(***************************************************************************)
C2_PendingThenPositive ==
    (pc = "done" /\ werr = NoError /\ rerr = NoError)
    => /\ ~PendingMessage(response)
       /\ (/\ Len(response) >= 1
           /\ response[1] = request_sid + 64
           /\ response[1] # 127)
          => /\ result = [kind |-> "Ok", bytes |-> Tail(response),
                          nrc |-> 0, err |-> NoError]
             /\ nreads = npending + 1

C2_Witness ==
    /\ pc = "done"
    /\ npending = 5
    /\ nreads = 6
    /\ request_sid = 191
    /\ response = <<255, 127, 120>>
    /\ result.kind = "Ok"
    /\ result.bytes = <<127, 120>>

(***************************************************************************)
(* C3: during one request() call write_message is invoked exactly once,    *)
(* before any read_message, however many response-pending messages are     *)
(* received.                                                               *)
(***************************************************************************)
C3_WrittenOnce ==
    /\ pc = "idle" => (Len(wire) = 0 /\ nreads = 0)
    /\ pc # "idle" => Len(wire) = 1
    /\ nreads > 0 => Len(wire) = 1

C3_Witness ==
    /\ pc = "done"
    /\ npending >= 2
    /\ rerr = NoError
    /\ Len(wire) = 1

(***************************************************************************)
(* C4: when the first non-pending message begins with 0x7F, request()      *)
(* fails with the negative-response error carrying the message's second    *)
(* byte, or 0 when the message has length 1.                               *)
(***************************************************************************)
C4_NegativeCarriesNrc ==
    (/\ EndedOnMessage
     /\ Len(response) >= 1
     /\ response[1] = 127)
    => /\ pc = "done"
       /\ result = [kind |-> "NegativeResponse", bytes |-> <<>>,
                    nrc |-> IF Len(response) >= 2 THEN response[2] ELSE 0,
                    err |-> NoError]

C4_Witness ==
    /\ pc = "done"
    /\ npending = 1
    /\ response = <<127, 80, 120>>
    /\ result.kind = "NegativeResponse"
    /\ result.nrc = 80

(***************************************************************************)
(* C5: a message whose first byte is 0x7F never makes request() return Ok, *)
(* also for the service id 0x3F whose positive echo equals 0x7F.           *)
(***************************************************************************)
C5_NegativeNeverOk ==
    (pc = "done" /\ result.kind = "Ok")
    => (Len(response) >= 1 /\ response[1] # 127)

C5_Witness ==
    /\ pc = "done"
    /\ request_sid = 63
    /\ response = <<127, 0>>
    /\ result.kind = "NegativeResponse"

(***************************************************************************)
(* C6: a zero-length message, first or after any number of pending         *)
(* messages, makes request() fail with the empty-response error; it is the *)
(* last message read.                                                      *)
(***************************************************************************)
C6_EmptyResponse ==
    (/\ EndedOnMessage
     /\ response = <<>>)
    => /\ pc = "done"
       /\ result = [kind |-> "EmptyResponse", bytes |-> <<>>, nrc |-> 0, err |-> NoError]
       /\ nreads = npending + 1

C6_Witness ==
    /\ pc = "done"
    /\ npending = 3
    /\ nreads = 4
    /\ rerr = NoError
    /\ response = <<>>
    /\ result.kind = "EmptyResponse"

(***************************************************************************)
(* C7 as stated: for every service id, when the first non-pending message  *)
(* is non-empty and its first byte is neither 0x7F nor service_id + 0x40,  *)
(* request() fails with the invalid-response-id error.  Refuted by service *)
(* ids >= 0xC0, for which request_sid + 0x40 overflows u8.                 *)
(***************************************************************************)
C7_OtherFirstByteIsInvalidId ==
    (/\ EndedOnMessage
     /\ Len(response) >= 1
     /\ response[1] # 127
     /\ response[1] # request_sid + 64)
    => /\ pc = "done"
       /\ result = [kind |-> "InvalidResponseId", bytes |-> <<>>, nrc |-> 0, err |-> NoError]

(***************************************************************************)
(* C8: if write_message fails, request() returns that transport error      *)
(* unchanged and never calls read_message.                                 *)
(***************************************************************************)
C8_WriteErrorPropagates ==
    werr # NoError
    => /\ pc = "done"
       /\ result = TransportError(werr)
       /\ nreads = 0

C8_Witness ==
    /\ pc = "done"
    /\ werr = "FlowControl"
    /\ result.err = "FlowControl"

(***************************************************************************)
(* C9: if read_message fails in any iteration of the loop, also after      *)
(* response-pending messages, request() ends at once with that transport   *)
(* error: the request is not written again and nothing more is read.       *)
(***************************************************************************)
C9_ReadErrorPropagates ==
    rerr # NoError
    => /\ pc = "done"
       /\ result = TransportError(rerr)
       /\ Len(wire) = 1
       /\ nreads = npending + 1

C9_Witness ==
    /\ pc = "done"
    /\ rerr = "Timeout"
    /\ npending = 2
    /\ result.err = "Timeout"

(***************************************************************************)
(* C10: as long as every message read_message delivered begins with 0x7F,  *)
(* 0x78, request() has reached no terminal state, neither Ok nor an error, *)
(* for any number of such messages.                                        *)
(***************************************************************************)
C10_PendingNeverTerminal ==
    (/\ pc # "idle"
     /\ werr = NoError
     /\ nreads = npending)
    => (pc = "read" /\ result.kind = "None")

C10_Witness ==
    /\ pc = "read"
    /\ npending = MaxPending
    /\ nreads = MaxPending
    /\ result.kind = "None"

(***************************************************************************)
(* C11: request_session(session_type) issues request(0x10,                 *)
(* [session_type]); when the Engine's payload is non-empty and begins with *)
(* session_type it returns the payload without that byte, uninterpreted;   *)
(* when the first byte differs it fails with the invalid-response error.   *)
(***************************************************************************)
C11_RequestSession ==
    (sv_pc = "returned" /\ sv_call.svc = "request_session")
    => /\ sv_calls[1] = [sid |-> 16, data |-> <<sv_call.num>>]
       /\ (sv_eng.kind = "Ok" /\ Len(sv_eng.bytes) >= 1)
          => IF sv_eng.bytes[1] = sv_call.num
             THEN sv_out = [kind |-> "Ok", bytes |-> Tail(sv_eng.bytes),
                            nrc |-> 0, err |-> NoError]
             ELSE sv_out = [kind |-> "InvalidResponse", bytes |-> <<>>,
                            nrc |-> 0, err |-> NoError]

C11_Witness ==
    /\ sv_pc = "returned"
    /\ sv_call.svc = "request_session"
    /\ sv_call.num = 1
    /\ sv_script.msg = <<80, 1, 2, 127>>
    /\ sv_out.kind = "Ok"
    /\ sv_out.bytes = <<2, 127>>

(***************************************************************************)
(* C12: read_data_by_identifier(id) issues request(0x22, [id >> 8,         *)
(* id & 0xFF]); it returns the Engine's payload without its first two      *)
(* bytes when they equal the big-endian identifier, and fails with the     *)
(* invalid-response error whenever either echoed byte differs.             *)
(***************************************************************************)
C12_ReadDataByIdentifier ==
    (sv_pc = "returned" /\ sv_call.svc = "read_data_by_identifier")
    => LET hi == sv_call.num \div 256
           lo == sv_call.num % 256
       IN  /\ sv_calls[1] = [sid |-> 34, data |-> <<hi, lo>>]
           /\ (sv_eng.kind = "Ok" /\ Len(sv_eng.bytes) >= 2)
              => IF sv_eng.bytes[1] = hi /\ sv_eng.bytes[2] = lo
                 THEN sv_out = [kind |-> "Ok",
                                bytes |-> Tail(Tail(sv_eng.bytes)),
                                nrc |-> 0, err |-> NoError]
                 ELSE sv_out = [kind |-> "InvalidResponse", bytes |-> <<>>,
                                nrc |-> 0, err |-> NoError]

C12_Witness ==
    /\ sv_pc = "returned"
    /\ sv_call.svc = "read_data_by_identifier"
    /\ sv_call.num = 258
    /\ sv_script.msg = <<98, 1, 2, 127>>
    /\ sv_out.kind = "Ok"
    /\ sv_out.bytes = <<127>>

(***************************************************************************)
(* C13: request_security_seed() issues request(0x27, [0x01]); when the     *)
(* Engine's payload is non-empty and begins with 0x01 it returns the       *)
(* remaining bytes as the seed; when the first byte is not 0x01 it fails   *)
(* and returns no seed.                                                    *)
(***************************************************************************)
C13_RequestSecuritySeed ==
    (sv_pc = "returned" /\ sv_call.svc = "request_security_seed")
    => /\ sv_calls[1] = [sid |-> 39, data |-> <<1>>]
       /\ (sv_eng.kind = "Ok" /\ Len(sv_eng.bytes) >= 1)
          => IF sv_eng.bytes[1] = 1
             THEN sv_out = [kind |-> "Ok", bytes |-> Tail(sv_eng.bytes),
                            nrc |-> 0, err |-> NoError]
             ELSE /\ sv_out.kind \notin {"Ok", "OkUnit", "None"}
                  /\ sv_out.bytes = <<>>

C13_Witness ==
    /\ sv_pc = "returned"
    /\ sv_call.svc = "request_security_seed"
    /\ sv_script.msg = <<103, 1, 2, 127>>
    /\ sv_out.kind = "Ok"
    /\ sv_out.bytes = <<2, 127>>

(***************************************************************************)
(* C14: request_security_key(key) issues request(0x27, [0x02] ++ key) and  *)
(* returns unit whenever the Engine returns Ok, whatever the payload holds *)
(* (nothing, or a sub-function echo other than 0x02); it fails only with   *)
(* the Engine's own error.                                                 *)
(***************************************************************************)
C14_RequestSecurityKey ==
    (sv_pc = "returned" /\ sv_call.svc = "request_security_key")
    => /\ sv_calls[1] = [sid |-> 39, data |-> <<2>> \o sv_call.bytes]
       /\ sv_eng.kind = "Ok"
          => sv_out = [kind |-> "OkUnit", bytes |-> <<>>, nrc |-> 0, err |-> NoError]
       /\ sv_eng.kind # "Ok" => sv_out = sv_eng

C14_Witness ==
    /\ sv_pc = "returned"
    /\ sv_call.svc = "request_security_key"
    /\ sv_call.bytes = <<2>>
    /\ sv_script.msg = <<103, 1>>
    /\ sv_eng.kind = "Ok"
    /\ sv_out.kind = "OkUnit"

(***************************************************************************)
(* C15: request_read_memory_address(address, length) issues                *)
(* request(0x23, p) where p is exactly 6 bytes, the 4-byte big-endian      *)
(* address then the 2-byte big-endian length (0x00100000, 0x0010 gives     *)
(* 00 10 00 00 00 10), and returns the Engine's result unmodified, with no *)
(* check of the returned byte count against length.                        *)
(***************************************************************************)
C15_ReadMemoryAddress ==
    (sv_pc = "returned" /\ sv_call.svc = "request_read_memory_address")
    => LET p == sv_calls[1].data
       IN  /\ sv_calls[1].sid = 35
           /\ Len(p) = 6
           /\ \A i \in 1..6 : p[i] \in 0..255
           /\ ((p[1] * 256 + p[2]) * 256 + p[3]) * 256 + p[4] = sv_call.num
           /\ p[5] * 256 + p[6] = sv_call.len
           /\ (sv_call.num = 1048576 /\ sv_call.len = 16) => p = <<0, 16, 0, 0, 0, 16>>
           /\ sv_out = sv_eng

C15_Witness ==
    /\ sv_pc = "returned"
    /\ sv_call.svc = "request_read_memory_address"
    /\ sv_call.num = 1048576
    /\ sv_call.len = 16
    /\ sv_calls = <<[sid |-> 35, data |-> <<0, 16, 0, 0, 0, 16>>]>>
    /\ sv_out.kind = "Ok"
    /\ Len(sv_out.bytes) = 2

(***************************************************************************)
(* C20: each service call invokes request() exactly once and, when         *)
(* request() fails, returns that same error unchanged: no retry, no        *)
(* default value, no partial data.                                         *)
(***************************************************************************)
C20_ServicesForwardErrors ==
    sv_pc = "returned"
    => /\ Len(sv_calls) = 1
       /\ sv_eng.kind # "Ok"
          => /\ sv_eng.kind \in {"Isotp", "NegativeResponse", "EmptyResponse",
                                 "InvalidResponseId"}
             /\ sv_out = sv_eng

C20_Witness ==
    /\ sv_pc = "returned"
    /\ sv_call.svc = "read_data_by_identifier"
    /\ sv_script.msg = <<127, 2, 1>>
    /\ sv_eng.kind = "NegativeResponse"
    /\ sv_out.kind = "NegativeResponse"
    /\ sv_out.nrc = 2
    /\ Len(sv_calls) = 1

MaxVecLen == 3

ElemTypes == {"U8", "I8", "I16"}

GetTypes == {"U8", "I8", "I32"}

\* i32 values handed to set
SetValues == {-129, 12, 33000}

\* elements of a freshly built vector
SeedValues == {0, 1}

Bits(ty) == IF ty \in {"U8", "I8"} THEN 8 ELSE 16

Signed(ty) == ty \in {"I8", "I16", "I32"}

Cast_Saturating(x, ty) ==
    IF ty = "I32" THEN x
    ELSE LET lo == IF Signed(ty) THEN 0 - 2^(Bits(ty) - 1) ELSE 0
             hi == IF Signed(ty) THEN 2^(Bits(ty) - 1) - 1 ELSE 2^Bits(ty) - 1
         IN  IF x < lo THEN lo ELSE IF x > hi THEN hi ELSE x

\* x as ty, for an integer x that fits i32
Cast(x, ty) ==
    IF ty = "I32" THEN x
    ELSE LET modulus == 2^Bits(ty)
             low == x % modulus
         IN  IF Signed(ty) /\ low >= modulus \div 2 THEN low - modulus ELSE low

InitNumVec ==
    /\ overflow_checks \in BOOLEAN
    /\ Idle
    /\ SvcIdle
    /\ nv_type \in ElemTypes
    /\ nv_elems \in SeqsUpTo(SeedValues, MaxVecLen)
    /\ nv_op = NoOp
    /\ CanIdle

\* v[index] with index out of range panics before anything is stored
IndexPanic(index) ==
    /\ nv_op' = [NoOp EXCEPT !.op = "panic", !.index = index]
    /\ UNCHANGED <<nv_type, nv_elems>>

\* NumVec::set(index, value): v[index] = value.as_()
set(index, value) ==
    IF index >= Len(nv_elems)
    THEN IndexPanic(index)
    ELSE /\ nv_elems' = [nv_elems EXCEPT ![index + 1] = Cast(value, nv_type)]
         /\ nv_op' = [NoOp EXCEPT !.op = "set", !.index = index,
                                  !.value = value, !.before = nv_elems]
         /\ UNCHANGED nv_type

\* NumVec::get::<T>(index): v[index].as_(); the record keeps the value of a
\* set to the same index that came immediately before
get(index, T) ==
    IF index >= Len(nv_elems)
    THEN IndexPanic(index)
    ELSE LET follows == nv_op.op = "set" /\ nv_op.index = index
         IN  /\ nv_op' = [NoOp EXCEPT
                            !.op = IF follows THEN "set_get" ELSE "get",
                            !.index = index,
                            !.value = IF follows THEN nv_op.value ELSE 0,
                            !.as = T,
                            !.got = Cast(nv_elems[index + 1], T)]
             /\ UNCHANGED <<nv_type, nv_elems>>

\* NumVec::len(): v.len()
len ==
    /\ nv_op' = [NoOp EXCEPT !.op = "len", !.got = Len(nv_elems)]
    /\ UNCHANGED <<nv_type, nv_elems>>

NvSet ==
    /\ nv_op.op # "panic"
    /\ \E index \in 0..Len(nv_elems), value \in SetValues : set(index, value)
    /\ UNCHANGED <<vars, svcvars, canvars>>

NvGet ==
    /\ nv_op.op # "panic"
    /\ \E index \in 0..Len(nv_elems), T \in GetTypes : get(index, T)
    /\ UNCHANGED <<vars, svcvars, canvars>>

NvLen ==
    /\ nv_op.op # "panic"
    /\ len
    /\ UNCHANGED <<vars, svcvars, canvars>>

NextNumVec ==
    \/ NvSet
    \/ NvGet
    \/ NvLen

SpecNumVec == InitNumVec /\ [][NextNumVec]_allvars

\* y is the value of type ty with the same low bits as x
IsCastOf(y, x, ty) ==
    IF ty = "I32" THEN y = x
    ELSE /\ (y - x) % 2^Bits(ty) = 0
         /\ IF Signed(ty)
            THEN 0 - 2^(Bits(ty) - 1) <= y /\ y < 2^(Bits(ty) - 1)
            ELSE 0 <= y /\ y < 2^Bits(ty)

(***************************************************************************)
(* C17: for a NumVec, set(index, value) followed by get(index) returns the *)
(* value cast through the vector's element type (and then to the type      *)
(* asked for); set leaves every other element and len() unchanged; len()   *)
(* equals the number of stored elements.                                   *)
(***************************************************************************)
C17_SetThenGet ==
    /\ nv_op.op = "set"
       => /\ Len(nv_elems) = Len(nv_op.before)
          /\ \A j \in 1..Len(nv_elems) :
                j # nv_op.index + 1 => nv_elems[j] = nv_op.before[j]
          /\ IsCastOf(nv_elems[nv_op.index + 1], nv_op.value, nv_type)
    /\ nv_op.op = "set_get"
       => \E stored \in {nv_elems[nv_op.index + 1]} :
             /\ IsCastOf(stored, nv_op.value, nv_type)
             /\ IsCastOf(nv_op.got, stored, nv_op.as)
    /\ nv_op.op = "len" => nv_op.got = Len(nv_elems)

C17_Witness ==
    /\ nv_op.op = "set_get"
    /\ nv_type = "I8"
    /\ nv_op.index = 1
    /\ nv_op.value = 33000
    /\ nv_elems = <<1, -24, 0>>
    /\ nv_op.as = "U8"
    /\ nv_op.got = 232

(***************************************************************************)
(* C18 as stated: every outcome that is not response-pending resolves the  *)
(* request on the message that caused it: request() leaves the wait in     *)
(* Resolved(Ok) or Resolved(Err) having read exactly k + 1 messages, k the *)
(* number of response-pending messages before it, and written once; from   *)
(* a resolved call nothing more is read or written.  Refuted where         *)
(* request_sid + 0x40 overflows u8 and overflow is checked: the message    *)
(* that is not response-pending panics the call instead of resolving it.   *)
(***************************************************************************)
C18_ResolvesOnCausingMessage ==
    [][/\ (pc = "read" /\ pc' # "read")
          => (/\ pc' = "done"
              /\ nreads' = npending' + 1
              /\ npending' = npending
              /\ wire' = wire)
       /\ pc = "done" => pc' = "idle"]_allvars

\* what does hold: k + 1 reads and one write, however the wait ends
ReadsPendingPlusOne ==
    /\ pc = "read" => (nreads = npending /\ Len(wire) = 1)
    /\ (pc \in {"done", "panicked"} /\ werr = NoError)
       => (nreads = npending + 1 /\ Len(wire) = 1)

\* the transport's outcomes of the call, as a script
ScriptOfCall == [werr |-> werr, rerr |-> rerr, msg |-> response]

\* the step-by-step request() and its summary EngineOutcome agree
EngineOutcomeAgrees ==
    pc \in {"done", "panicked"}
    => result = EngineOutcome(request_sid, ScriptOfCall, overflow_checks)

(***************************************************************************)
(* C19 as stated: if the transport eventually delivers a message that is   *)
(* not response-pending, or eventually reports an error, request()         *)
(* eventually terminates in Resolved(Ok) or Resolved(Err).  Refuted where  *)
(* request_sid + 0x40 overflows u8 and overflow is checked: the call       *)
(* panics instead of resolving.                                            *)
(***************************************************************************)
C19_EventuallyResolved == (pc = "read") ~> (pc = "done")

\* what does hold: the wait ends, in a result or in the panic
EventuallyResolvedOrPanicked == (pc = "read") ~> (pc \in {"done", "panicked"})

\* the Engine returned a payload too short to hold the echoed parameter
TooShortPayload ==
    /\ sv_pc = "returned"
    /\ sv_eng.kind = "Ok"
    /\ \/ /\ sv_call.svc \in {"request_session", "request_security_seed"}
          /\ Len(sv_eng.bytes) = 0
       \/ /\ sv_call.svc = "read_data_by_identifier"
          /\ Len(sv_eng.bytes) < 2

(***************************************************************************)
(* C21 as stated: a service call whose positive-response payload is too    *)
(* short to contain the echoed parameter (0 bytes for request_session and  *)
(* request_security_seed, fewer than 2 bytes for read_data_by_identifier)  *)
(* fails with the invalid-response error kind.                             *)
(***************************************************************************)
C21_AllServices_TooShortIsInvalidResponse ==
    TooShortPayload => sv_out.kind = "InvalidResponse"

(***************************************************************************)
(* C21, amended: on a payload too short to contain the echoed parameter,   *)
(* request_session and request_security_seed (0 bytes) fail with the       *)
(* empty-response error kind, read_data_by_identifier (fewer than 2 bytes) *)
(* fails with the invalid-response error kind.                             *)
(***************************************************************************)
C21_TooShortPayloadFails ==
    TooShortPayload
    => sv_out = [kind |-> IF sv_call.svc = "read_data_by_identifier"
                          THEN "InvalidResponse" ELSE "EmptyResponse",
                 bytes |-> <<>>, nrc |-> 0, err |-> NoError]

C21_Witness ==
    /\ sv_pc = "returned"
    /\ sv_call.svc = "request_security_seed"
    /\ sv_script.msg = <<103>>
    /\ sv_eng.kind = "Ok"
    /\ sv_eng.bytes = <<>>
    /\ sv_out.kind = "EmptyResponse"

(***************************************************************************)
(* C22: the bytes request(service_id, payload) hands to write_message are  *)
(* exactly [service_id] ++ payload: one leading service-id byte, then the  *)
(* payload bytes in order, nothing added, dropped or reordered, for every  *)
(* payload length including 0.                                             *)
(***************************************************************************)
C22_WireIsSidThenPayload ==
    pc # "idle"
    => /\ Len(wire) = 1
       /\ Len(wire[1]) = Len(data) + 1
       /\ wire[1][1] = request_sid
       /\ \A i \in 1..Len(data) : wire[1][i + 1] = data[i]

C22_Witness ==
    /\ pc = "read"
    /\ request_sid = 16
    /\ data = <<2, 1>>
    /\ wire = <<<<16, 2, 1>>>>

(***************************************************************************)
(* C23 as stated: for every service id in 0..255, those >= 0xC0 included,  *)
(* request() on a non-empty message whose first byte is not 0x7F ends with *)
(* a Result, Ok or invalid-response-id: computing the expected positive    *)
(* echo as an 8-bit value never aborts the call.  Refuted where overflow   *)
(* is checked: request_sid + 0x40 panics for request_sid >= 0xC0.          *)
(***************************************************************************)
C23_EchoNeverAborts ==
    (/\ pc \in {"done", "panicked"}
     /\ werr = NoError
     /\ rerr = NoError
     /\ Len(response) >= 1
     /\ response[1] # 127)
    => /\ pc = "done"
       /\ result.kind \in {"Ok", "InvalidResponseId"}

\* what does hold: the call aborts only where the echo does not fit a byte
\* and overflow is checked
AbortsOnlyOnCheckedOverflow ==
    pc = "panicked" <=> (/\ overflow_checks
                         /\ request_sid + 64 > 255
                         /\ werr = NoError
                         /\ rerr = NoError
                         /\ Len(response) >= 1
                         /\ response[1] # 127)

(***************************************************************************)
(* Can::read for CANSocket (can.rs).  The socket either fails to set the   *)
(* timeout, fails to read (timeout included), or hands over one frame; a   *)
(* frame's data() is its payload, as many bytes as the frame carries.      *)
(***************************************************************************)
CAN_MAX_DLEN == 8

CanBytes == {0, 165}

CanIds == {2016, 2024}

IoErrors == {"Io", "TimedOut"}

CanPayloads == SeqsUpTo(CanBytes, CAN_MAX_DLEN)

Frames == [id : CanIds, payload : CanPayloads]

\* what the socket does during one read
SocketOutcomes ==
    {[NoIo EXCEPT !.timeout_err = e] : e \in IoErrors}
    \cup {[NoIo EXCEPT !.read_err = e] : e \in IoErrors}
    \cup {[NoIo EXCEPT !.frame = f] : f \in Frames}

IoError(e) == [NoMessage EXCEPT !.kind = "Err", !.err = e]

CanPanicked == [NoMessage EXCEPT !.kind = "Panic"]

\* frame.data(): the slice of the bytes the frame carries
FrameData(frame) == frame.payload

\* let mut data = [0_u8; 8]
ZeroData == [i \in 1..CAN_MAX_DLEN |-> 0]

\* dst.copy_from_slice(src): panics unless both have the same length
CopyFromSlice(dst, src) ==
    IF Len(src) # Len(dst)
    THEN [panic |-> TRUE, val |-> dst]
    ELSE [panic |-> FALSE, val |-> src]

\* Can::read(timeout) under the socket outcome io
read(io) ==
    IF io.timeout_err # NoError THEN IoError(io.timeout_err)
    ELSE IF io.read_err # NoError THEN IoError(io.read_err)
    ELSE LET frame_data == FrameData(io.frame)
             copied == CopyFromSlice(ZeroData, frame_data)
         IN  IF copied.panic THEN CanPanicked
             ELSE [kind |-> "Ok", id |-> io.frame.id, data |-> copied.val,
                   len |-> Len(frame_data) % U8_MODULUS, err |-> NoError]

CanRead ==
    /\ can_pc = "idle"
    /\ \E io \in SocketOutcomes :
          /\ can_io' = io
          /\ can_out' = read(io)
          /\ can_pc' = IF can_out'.kind = "Panic" THEN "panicked" ELSE "returned"
    /\ UNCHANGED <<vars, svcvars, nvvars>>

\* the caller has the result and may read again
CanReturn ==
    /\ can_pc = "returned"
    /\ can_pc' = "idle"
    /\ can_io' = NoIo
    /\ can_out' = NoMessage
    /\ UNCHANGED <<vars, svcvars, nvvars>>

NextCan ==
    \/ CanRead
    \/ CanReturn

SpecCan == Init /\ [][NextCan]_allvars

\* the socket handed a frame over
FrameReceived ==
    /\ can_pc # "idle"
    /\ can_io.timeout_err = NoError
    /\ can_io.read_err = NoError

(***************************************************************************)
(* C24 as stated: the frame transport's receive returns one Frame for      *)
(* every received frame whose payload length is anywhere in 0..8, with len *)
(* equal to that payload length and the payload bytes in data, or else     *)
(* fails with an I/O or timeout error; it never aborts on a frame shorter  *)
(* than 8 bytes.  Refuted: copy_from_slice panics on every frame whose     *)
(* payload is shorter than 8 bytes.                                        *)
(***************************************************************************)
C24_ReceiveReturnsFrame ==
    /\ can_pc # "panicked"
    /\ FrameReceived
       => /\ can_out.kind = "Ok"
          /\ can_out.id = can_io.frame.id
          /\ can_out.len = Len(can_io.frame.payload)
          /\ \A i \in 1..Len(can_io.frame.payload) :
                can_out.data[i] = can_io.frame.payload[i]
    /\ (can_pc # "idle" /\ ~FrameReceived)
       => /\ can_out.kind = "Err"
          /\ can_out.err \in IoErrors

\* what does hold: read aborts exactly on the frames shorter than 8 bytes,
\* returns the 8-byte frames whole and passes the socket's errors on
ReceiveAbortsOnShortFrame ==
    /\ can_pc = "panicked"
       <=> (FrameReceived /\ Len(can_io.frame.payload) < CAN_MAX_DLEN)
    /\ (FrameReceived /\ Len(can_io.frame.payload) = CAN_MAX_DLEN)
       => can_out = [kind |-> "Ok", id |-> can_io.frame.id,
                     data |-> can_io.frame.payload, len |-> CAN_MAX_DLEN,
                     err |-> NoError]
    /\ (can_pc # "idle" /\ ~FrameReceived)
       => /\ can_out.kind = "Err"
          /\ can_out.err \in IoErrors

====
